---- MODULE Spec2Model ----
(***************************************************************************)
(* Model of the two AWS Lambda handlers of                                 *)
(* "AWS Utilities - EC2 PowerCycle with auto-update DNS":                  *)
(*   lambda_PowerCycle.py  lambda_handler  (bulk start/stop of instances)  *)
(*   lambda_UpdateDNS.py   lambda_handler, do_dns_update  (DNS upsert)     *)
(* One invocation is one behaviour: Invoke draws the handler and its event,*)
(* and every external call (client construction, listing page, describe,   *)
(* start/stop, upsert) is one step whose outcome the environment chooses.  *)
(* Python strings that the code trims, lower-cases, splits or matches are  *)
(* sequences of one-character strings; strings the code only compares or   *)
(* copies are TLA+ strings.                                                *)
(***************************************************************************)
EXTENDS Integers, Sequences, FiniteSets, TLC

\* ------------------------------------------------------------- bounds
\* most comma-separated tokens in an explicit "instances" string
MaxTokens == 2
\* most pages the describe_instances paginator yields
MaxPages == 2
\* most instances the listing returns over all its pages
MaxListed == 2
\* most reservations in the describe_instances response of the DNS handler
MaxReservations == 1
\* most instances in the describe_instances response of the DNS handler
MaxInstances == 2

\* ------------------------------------------------------------- strings
\* number of hexadecimal characters the instance-ID regex asks for
HexLen == 17

HexChars == {"0","1","2","3","4","5","6","7","8","9","a","b","c","d","e","f"}

\* characters str.strip() removes (those that occur in the modelled inputs)
Whitespace == {" ", "\t", "\n"}

\* str.lower() on one character
LowerChar(c) ==
    CASE c = "A" -> "a" [] c = "B" -> "b" [] c = "C" -> "c" [] c = "D" -> "d"
      [] c = "E" -> "e" [] c = "F" -> "f" [] c = "L" -> "l" [] OTHER -> c

\* str.lower()
Lower(s) == [k \in 1..Len(s) |-> LowerChar(s[k])]

\* str.strip(): drop leading and trailing whitespace
Strip(s) ==
    LET keep == {k \in 1..Len(s) : s[k] \notin Whitespace}
    IN  IF keep = {} THEN <<>>
        ELSE LET lo == CHOOSE k \in keep : \A j \in keep : k <= j
                 hi == CHOOSE k \in keep : \A j \in keep : k >= j
             IN  SubSeq(s, lo, hi)

\* str.split(','): the pieces between commas, empty pieces kept
RECURSIVE Split(_)
Split(s) ==
    LET commas == {k \in 1..Len(s) : s[k] = ","}
    IN  IF commas = {} THEN <<s>>
        ELSE LET c == CHOOSE k \in commas : \A j \in commas : k <= j
             IN  <<SubSeq(s, 1, c - 1)>> \o Split(SubSeq(s, c + 1, Len(s)))

\* a mutant of RegexMatch: [0-9a-fA-F], upper-case hex accepted
RegexMatchAnyCase(s) ==
    LET core == IF Len(s) = HexLen + 3 /\ s[Len(s)] = "\n"
                THEN SubSeq(s, 1, Len(s) - 1) ELSE s
    IN  /\ Len(core) = HexLen + 2
        /\ core[1] = "i"
        /\ core[2] = "-"
        /\ \A k \in 3..Len(core) : LowerChar(core[k]) \in HexChars

\* re.compile(r"^i-[0-9a-f]{17}$").match(s); "$" also matches before one
\* trailing newline
RegexMatch(s) ==
    LET core == IF Len(s) = HexLen + 3 /\ s[Len(s)] = "\n"
                THEN SubSeq(s, 1, Len(s) - 1) ELSE s
    IN  /\ Len(core) = HexLen + 2
        /\ core[1] = "i"
        /\ core[2] = "-"
        /\ \A k \in 3..Len(core) : core[k] \in HexChars

\* ------------------------------------------------------------- sample inputs
HexBody == <<"0","1","2","3","4","5","6","7","8","9","a","b","c","d","e","f">>

\* the n-th well-formed instance ID, n in 1..16
Id(n) == <<"i","-">> \o HexBody \o <<HexBody[n]>>

IdA == Id(1)
IdB == Id(2)
\* upper-case hex digits
UpperId == <<"i","-","0","1","2","3","4","5","6","7","8","9","A","B","C","D","E","F","0">>
\* one hex digit short
ShortId == <<"i","-">> \o HexBody
BadId == <<"b","a","d","-","i","d">>
PaddedA == <<" ">> \o IdA \o <<"\t">>
BlankTok == <<" ">>
EmptyTok == <<>>
AllTok == <<"a","l","l">>
AllUpperPadded == <<" ","A","L","L"," ">>

TokenPool ==
    {IdA, IdB, UpperId, ShortId, BadId, PaddedA, BlankTok, EmptyTok, AllTok, AllUpperPadded}

RECURSIVE Join(_)
\* the tokens joined by commas
Join(ts) ==
    IF Len(ts) = 0 THEN <<>>
    ELSE IF Len(ts) = 1 THEN ts[1]
    ELSE ts[1] \o <<",">> \o Join(Tail(ts))

\* sequences over S of length lo..hi
SeqsOf(S, lo, hi) == UNION {[1..n -> S] : n \in lo..hi}

\* ------------------------------------------------------------- events
\* a field of the event: absent, not a string, or a string
Absent == [t |-> "absent", s |-> <<>>]
NotStr == [t |-> "num", s |-> <<>>]
Str(s) == [t |-> "str", s |-> s]

RegionFields == {Absent, NotStr, Str(<<>>), Str(<<" ">>), Str(<<" ","e","u"," ">>)}

OperationFields ==
    {[t |-> "absent", s |-> ""], [t |-> "str", s |-> "start"],
     [t |-> "str", s |-> "stop"], [t |-> "str", s |-> "Start"]}

\* the token sequences an "instances" string is written from
TokenLists == SeqsOf(TokenPool, 1, MaxTokens)

\* the "detail" field of a state-change notification: absent, null, not a
\* mapping, or a mapping whose "instance-id" is absent, empty or an ID
DetailFields ==
    {[t |-> "absent", id |-> Absent], [t |-> "null", id |-> Absent],
     [t |-> "str", id |-> Absent], [t |-> "map", id |-> Absent],
     [t |-> "map", id |-> Str(<<>>)], [t |-> "map", id |-> Str(IdA)]}

NoDetail == [t |-> "absent", id |-> Absent]
NoOperation == [t |-> "absent", s |-> ""]

\* an event that is not a mapping (None)
NullEvent ==
    [isMapping |-> FALSE, region |-> Absent, operation |-> NoOperation,
     instances |-> Absent, tokens |-> <<>>, detail |-> NoDetail]

\* "tokens" is not a field of the event: it records the tokens the
\* "instances" string was written from, and no handler reads it
PowerCycleEvents ==
    {NullEvent} \cup
    {[isMapping |-> TRUE, region |-> r, operation |-> o, instances |-> i,
      tokens |-> <<>>, detail |-> NoDetail] :
        r \in RegionFields, o \in OperationFields, i \in {Absent, NotStr}} \cup
    {[isMapping |-> TRUE, region |-> r, operation |-> o, instances |-> Str(Join(ts)),
      tokens |-> ts, detail |-> NoDetail] :
        r \in RegionFields, o \in OperationFields, ts \in TokenLists}

\* the region of a notification: absent, empty, or a region name
NotificationRegions == {Absent, Str(<<>>), Str(<<"e","u">>)}

UpdateDNSEvents ==
    {NullEvent} \cup
    {[isMapping |-> TRUE, region |-> r, operation |-> NoOperation,
      instances |-> Absent, tokens |-> <<>>, detail |-> d] :
        r \in NotificationRegions, d \in DetailFields}

\* ------------------------------------------------------------- state
VARIABLES
    handler,                \* which lambda_handler runs: "PowerCycle", "UpdateDNS"
    event,                  \* its event argument
    pc,                     \* the handler's position
    response,               \* what the handler returned, or that it raised
    ec2Calls,               \* compute API requests issued so far
    dnsCalls,               \* do_dns_update invocations so far
    listed,                 \* instances the paginated listing has yielded
    pagesFetched,           \* pages the paginator has requested
    instances_to_process,
    successful_operations,
    failed_operations,
    idx,                    \* entries of instances_to_process already handled
    reservations,           \* the describe_instances response (UpdateDNS)
    pos,                    \* instances of the response already handled
    found_instance_details,
    update_results

vars ==
    <<handler, event, pc, response, ec2Calls, dnsCalls, listed, pagesFetched,
      instances_to_process, successful_operations, failed_operations, idx,
      reservations, pos, found_instance_details, update_results>>

pcVars ==
    <<listed, pagesFetched, instances_to_process, successful_operations,
      failed_operations, idx>>

dnsVars == <<dnsCalls, reservations, pos, found_instance_details, update_results>>

\* ------------------------------------------------------------- responses
BaseResponse ==
    [kind |-> "return", statusCode |-> 0, keys |-> {}, message |-> "",
     successful_instances |-> <<>>, failed_instances |-> <<>>,
     invalid_instances |-> <<>>, status |-> "", updates |-> <<>>]

NoResponse == [BaseResponse EXCEPT !.kind = "none"]

\* an exception left the handler
Raised == [BaseResponse EXCEPT !.kind = "raise"]

\* {"statusCode": code, "body": json.dumps({"message": msg})}
MessageOnly(code, msg) ==
    [BaseResponse EXCEPT !.statusCode = code, !.keys = {"message"}, !.message = msg]

Init ==
    /\ handler = "none"
    /\ event = NullEvent
    /\ pc = "idle"
    /\ response = NoResponse
    /\ ec2Calls = <<>>
    /\ dnsCalls = <<>>
    /\ listed = <<>>
    /\ pagesFetched = 0
    /\ instances_to_process = <<>>
    /\ successful_operations = <<>>
    /\ failed_operations = <<>>
    /\ idx = 0
    /\ reservations = <<>>
    /\ pos = 0
    /\ found_instance_details = FALSE
    /\ update_results = <<>>

\* the trigger dispatcher invokes one of the handlers with an event
Invoke ==
    /\ pc = "idle"
    /\ \E h \in {"PowerCycle", "UpdateDNS"} :
         /\ handler' = h
         /\ event' \in (IF h = "PowerCycle" THEN PowerCycleEvents ELSE UpdateDNSEvents)
    /\ pc' = "validate"
    /\ UNCHANGED <<response, ec2Calls, pcVars, dnsVars>>

\* return: the handler ends with response r
Return(r) ==
    /\ response' = r
    /\ pc' = "done"

\* ------------------------------------------------------------- PowerCycle
\* region = event['region'].strip()
Region == Strip(event.region.s)

\* instances_input = event['instances'].strip()
InstancesInput == Strip(event.instances.s)

\* 'f' not in event or not isinstance(event['f'], str) or not event['f'].strip()
BlankOrMissing(f) == f.t # "str" \/ Strip(f.s) = <<>>

\* 'operation' not in event or event['operation'] not in ['start', 'stop']
OperationInvalid == event.operation.t # "str" \/ event.operation.s \notin {"start", "stop"}

\* instances_input.lower() == 'all'
IsAll == Lower(InstancesInput) = AllTok

InstanceStates == {"pending", "running", "stopping", "stopped", "terminated"}

\* a mutant of Selected: "start" also takes pending instances
SelectedWithPending(operation, state) ==
    \/ operation = "start" /\ state \in {"stopped", "stopping", "pending"}
    \/ operation = "stop" /\ state \in {"running", "pending"}

\* the state filter of the "all" branch
Selected(operation, state) ==
    \/ operation = "start" /\ state \in {"stopped", "stopping"}
    \/ operation = "stop" /\ state \in {"running", "pending"}

\* the IDs of the instances of a page that pass the state filter, in order
SelectedIds(page, operation) ==
    LET keep == {k \in 1..Len(page) : Selected(operation, page[k].State)}
        F[k \in 0..Len(page)] ==
            IF k = 0 THEN <<>>
            ELSE IF k \in keep THEN Append(F[k - 1], page[k].InstanceId)
            ELSE F[k - 1]
    IN  F[Len(page)]

InvalidFormat(id) == [instance_id |-> id, reason |-> "invalid_format"]

\* the loop over instance_ids_raw: [instances_to_process,
\* failed_initial_validation_instances] after the first k raw tokens
ParseList(raw) ==
    LET F[k \in 0..Len(raw)] ==
            IF k = 0 THEN [valid |-> <<>>, failed |-> <<>>]
            ELSE LET cleaned_id == Strip(raw[k])
                 IN  IF cleaned_id = <<>> THEN F[k - 1]
                     ELSE IF RegexMatch(cleaned_id)
                     THEN [F[k - 1] EXCEPT !.valid = Append(@, cleaned_id)]
                     ELSE [F[k - 1] EXCEPT !.failed = Append(@, InvalidFormat(cleaned_id))]
    IN  F[Len(raw)]

\* the two rejections that follow instance resolution, else the start of
\* the execution loop with failed_operations pre-populated
AfterResolve(valid, failed) ==
    IF valid = <<>> /\ failed = <<>>
    THEN /\ Return(MessageOnly(400, "No valid EC2 instance IDs provided for processing."))
         /\ UNCHANGED <<instances_to_process, successful_operations, failed_operations, idx>>
    ELSE IF valid = <<>>
    THEN /\ Return([BaseResponse EXCEPT
                     !.statusCode = 400,
                     !.keys = {"message", "invalid_instances"},
                     !.message = "All provided EC2 instance IDs had an invalid format.",
                     !.invalid_instances = failed])
         /\ UNCHANGED <<instances_to_process, successful_operations, failed_operations, idx>>
    ELSE /\ instances_to_process' = valid
         /\ successful_operations' = <<>>
         /\ failed_operations' = failed
         /\ idx' = 0
         /\ pc' = "exec"
         /\ UNCHANGED response

\* the three field validations
PcValidate ==
    /\ pc = "validate"
    /\ handler = "PowerCycle"
    /\ IF ~event.isMapping
       THEN Return(Raised)
       ELSE IF BlankOrMissing(event.region)
       THEN Return(MessageOnly(400, "Missing or invalid 'region' in event."))
       ELSE IF OperationInvalid
       THEN Return(MessageOnly(400, "Missing or invalid 'operation' in event."))
       ELSE IF BlankOrMissing(event.instances)
       THEN Return(MessageOnly(400, "Missing or invalid 'instances' in event."))
       ELSE pc' = "client" /\ UNCHANGED response
    /\ UNCHANGED <<handler, event, ec2Calls, pcVars, dnsVars>>

\* boto3.client('ec2', region_name=region): it constructs or raises
PcClient ==
    /\ pc = "client"
    /\ handler = "PowerCycle"
    /\ \E ok \in BOOLEAN :
         IF ok
         THEN pc' = (IF IsAll THEN "list" ELSE "parse") /\ UNCHANGED response
         ELSE Return(MessageOnly(500, "Failed to initialize EC2 client."))
    /\ UNCHANGED <<handler, event, ec2Calls, pcVars, dnsVars>>

\* the pages a request of the paginator can return: the n-th instance of the
\* listing has ID Id(n), in any state
PagesAfter(n) ==
    UNION {[1..m -> InstanceStates] : m \in 0..(MaxListed - n)}

\* a request of the paginator and how it ended
ListCall(outcome) == [api |-> "describe_instances", id |-> <<>>, outcome |-> outcome]

\* one page of describe_paginator.paginate() arrives and is filtered
PcListPage ==
    /\ pc = "list"
    /\ pagesFetched < MaxPages
    /\ \E states \in PagesAfter(Len(listed)) :
         LET page == [k \in 1..Len(states) |->
                        [InstanceId |-> Id(Len(listed) + k), State |-> states[k]]]
         IN  /\ listed' = listed \o page
             /\ instances_to_process' =
                    instances_to_process \o SelectedIds(page, event.operation.s)
    /\ pagesFetched' = pagesFetched + 1
    /\ ec2Calls' = Append(ec2Calls, ListCall("ok"))
    /\ UNCHANGED <<handler, event, pc, response, successful_operations,
                   failed_operations, idx, dnsVars>>

\* a mutant of PcListFail: the error is swallowed and the handler goes on
\* with the instances of the pages already read
PcListFailGoesOn ==
    /\ pc = "list"
    /\ pagesFetched < MaxPages
    /\ \E e \in {"ClientError", "Exception"} :
         ec2Calls' = Append(ec2Calls, ListCall(e))
    /\ IF instances_to_process = <<>>
       THEN /\ Return(MessageOnly(500, "Failed to list all instances"))
            /\ UNCHANGED <<instances_to_process, successful_operations,
                           failed_operations, idx>>
       ELSE AfterResolve(instances_to_process, <<>>)
    /\ pagesFetched' = pagesFetched + 1
    /\ UNCHANGED <<handler, event, listed, dnsVars>>

\* a page request raises: ClientError or another exception, both answered 500
PcListFail ==
    /\ pc = "list"
    /\ pagesFetched < MaxPages
    /\ \E e \in {"ClientError", "Exception"} :
         /\ Return(MessageOnly(500, IF e = "ClientError"
                                    THEN "Failed to list all instances"
                                    ELSE "Unexpected error listing all instances"))
         /\ ec2Calls' = Append(ec2Calls, ListCall(e))
    /\ pagesFetched' = pagesFetched + 1
    /\ UNCHANGED <<handler, event, listed, instances_to_process,
                   successful_operations, failed_operations, idx, dnsVars>>

\* the fields of the body returned when "all" selects nothing
EmptySelectionKeys == {"message", "operation", "successful_instances", "failed_instances"}

\* the paginator is exhausted: the empty selection returns 200, else the
\* execution loop starts
PcListDone ==
    /\ pc = "list"
    /\ pagesFetched >= 1
    /\ IF instances_to_process = <<>>
       THEN /\ Return([BaseResponse EXCEPT
                        !.statusCode = 200,
                        !.keys = EmptySelectionKeys,
                        !.message = "No instances found in suitable state"])
            /\ UNCHANGED <<instances_to_process, successful_operations,
                           failed_operations, idx>>
       ELSE AfterResolve(instances_to_process, <<>>)
    /\ UNCHANGED <<handler, event, ec2Calls, listed, pagesFetched, dnsVars>>

\* the comma-separated list is split and each token checked
PcParseList ==
    /\ pc = "parse"
    /\ LET r == ParseList(Split(InstancesInput))
       IN  AfterResolve(r.valid, r.failed)
    /\ UNCHANGED <<handler, event, ec2Calls, listed, pagesFetched, dnsVars>>

\* a mutant of PcExec: a failed call ends the loop (break in the except)
PcExecAbortsOnFailure ==
    /\ pc = "exec"
    /\ idx < Len(instances_to_process)
    /\ LET instance_id == instances_to_process[idx + 1]
       IN  \E outcome \in {"ok", "ClientError", "Exception"} :
             /\ ec2Calls' = Append(ec2Calls,
                    [api |-> (IF event.operation.s = "start" THEN "start_instances"
                              ELSE "stop_instances"),
                     id |-> instance_id, outcome |-> outcome])
             /\ IF outcome = "ok"
                THEN /\ successful_operations' = Append(successful_operations, instance_id)
                     /\ idx' = idx + 1
                     /\ UNCHANGED failed_operations
                ELSE /\ failed_operations' = Append(failed_operations,
                            [instance_id |-> instance_id,
                             reason |-> IF outcome = "ClientError" THEN "aws_api_error"
                                        ELSE "unexpected_error"])
                     /\ idx' = Len(instances_to_process)
                     /\ UNCHANGED successful_operations
    /\ UNCHANGED <<handler, event, pc, response, listed, pagesFetched,
                   instances_to_process, dnsVars>>

\* one iteration of the execution loop: one start/stop call and its outcome
PcExec ==
    /\ pc = "exec"
    /\ idx < Len(instances_to_process)
    /\ LET instance_id == instances_to_process[idx + 1]
       IN  \E outcome \in {"ok", "ClientError", "Exception"} :
             /\ ec2Calls' = Append(ec2Calls,
                    [api |-> (IF event.operation.s = "start" THEN "start_instances"
                              ELSE "stop_instances"),
                     id |-> instance_id, outcome |-> outcome])
             /\ CASE outcome = "ok" ->
                       /\ successful_operations' = Append(successful_operations, instance_id)
                       /\ UNCHANGED failed_operations
                  [] outcome = "ClientError" ->
                       /\ failed_operations' = Append(failed_operations,
                              [instance_id |-> instance_id, reason |-> "aws_api_error"])
                       /\ UNCHANGED successful_operations
                  [] OTHER ->
                       /\ failed_operations' = Append(failed_operations,
                              [instance_id |-> instance_id, reason |-> "unexpected_error"])
                       /\ UNCHANGED successful_operations
    /\ idx' = idx + 1
    /\ UNCHANGED <<handler, event, pc, response, listed, pagesFetched,
                   instances_to_process, dnsVars>>

\* a mutant of StatusCode: any failure makes the invocation fail
StatusCodeAnyFailure(successful, failed) == IF failed # <<>> THEN 500 ELSE 200

\* status_code of the final response
StatusCode(successful, failed) ==
    IF successful = <<>> /\ failed # <<>> THEN 500 ELSE 200

\* overall_message of the final response
OverallMessage(successful, failed) ==
    IF successful = <<>> /\ failed # <<>> THEN "Failed to process any of the specified instances."
    ELSE IF successful # <<>> /\ failed # <<>>
    THEN "Successfully initiated for some instances, others failed."
    ELSE "Successfully initiated for all specified instances."

\* a mutant of ResponseBodyKeys: "region" left out, as in the empty-selection body
ResponseBodyKeysNoRegion ==
    {"message", "operation", "successful_instances", "failed_instances"}

\* the fields of response_body
ResponseBodyKeys ==
    {"message", "operation", "successful_instances", "failed_instances", "region"}

\* the loop is over: the aggregate response
PcAggregate ==
    /\ pc = "exec"
    /\ idx = Len(instances_to_process)
    /\ Return([BaseResponse EXCEPT
                !.statusCode = StatusCode(successful_operations, failed_operations),
                !.keys = ResponseBodyKeys,
                !.message = OverallMessage(successful_operations, failed_operations),
                !.successful_instances = successful_operations,
                !.failed_instances = failed_operations])
    /\ UNCHANGED <<handler, event, ec2Calls, pcVars, dnsVars>>

PowerCycleNext ==
    \/ PcValidate
    \/ PcClient
    \/ PcListPage
    \/ PcListFail
    \/ PcListDone
    \/ PcParseList
    \/ PcExec
    \/ PcAggregate

\* ------------------------------------------------------------- UpdateDNS
\* tags an instance can carry; a key occurs at most once on an instance
TagPool ==
    {[Key |-> "PublicDNS", Value |-> "pub"], [Key |-> "PublicDNS", Value |-> ""],
     [Key |-> "Name", Value |-> "host1"], [Key |-> "Name", Value |-> ""]}

TagLists ==
    {ts \in SeqsOf(TagPool, 0, 2) :
        \A i, j \in 1..Len(ts) : i # j => ts[i].Key # ts[j].Key}

\* an instance of the describe response: 'Tags' may be missing, and
\* PublicIpAddress is "" when the instance has none
DescribedInstances ==
    {[hasTags |-> TRUE, Tags |-> ts, PublicIpAddress |-> ip] :
        ts \in TagLists, ip \in {"", "1.2.3.4"}}
    \cup {[hasTags |-> FALSE, Tags |-> <<>>, PublicIpAddress |-> ip] :
        ip \in {"", "1.2.3.4"}}

\* the instances of all reservations, in the order the nested loops visit them
Flatten(rs) ==
    LET F[k \in 0..Len(rs)] == IF k = 0 THEN <<>> ELSE F[k - 1] \o rs[k]
    IN  F[Len(rs)]

\* the number of instances of a response whose reservations have sizes sh
Total(sh) ==
    LET F[k \in 0..Len(sh)] == IF k = 0 THEN 0 ELSE F[k - 1] + sh[k]
    IN  F[Len(sh)]

\* the sizes of the reservations of a response
ReservationShapes ==
    {sh \in SeqsOf(0..MaxInstances, 0, MaxReservations) : Total(sh) <= MaxInstances}

\* the 'Reservations' whose reservations have sizes sh and hold the
\* instances flat, in order
Reservations(sh, flat) ==
    [k \in 1..Len(sh) |->
        [j \in 1..sh[k] |-> flat[Total(SubSeq(sh, 1, k - 1)) + j]]]

\* the value the tag loop leaves for `key`: the last tag with that key, ""
\* (None) when there is none
TagValue(instance, key) ==
    LET ts == IF instance.hasTags THEN instance.Tags ELSE <<>>
        F[k \in 0..Len(ts)] ==
            IF k = 0 THEN ""
            ELSE IF ts[k].Key = key THEN ts[k].Value ELSE F[k - 1]
    IN  F[Len(ts)]

\* a mutant of ResolveName: the Name tag is preferred
ResolveNamePrefersName(instance) ==
    IF TagValue(instance, "Name") # "" THEN TagValue(instance, "Name")
    ELSE TagValue(instance, "PublicDNS")

\* dns_name after the fallback: PublicDNS when non-empty, else Name, else ""
ResolveName(instance) ==
    IF TagValue(instance, "PublicDNS") # "" THEN TagValue(instance, "PublicDNS")
    ELSE TagValue(instance, "Name")

\* {"status": "error", "message": msg}
DnsError(code, msg) ==
    [BaseResponse EXCEPT !.statusCode = code, !.keys = {"status", "message"},
                         !.status = "error", !.message = msg]

\* the extraction of instance-id and region, outside the try block, and the
\* check that both are there
DnsValidate ==
    /\ pc = "validate"
    /\ handler = "UpdateDNS"
    /\ IF ~event.isMapping \/ event.detail.t \in {"null", "str"}
       THEN Return(Raised)
       ELSE IF \/ event.detail.t = "absent"
               \/ event.detail.id.t # "str"
               \/ event.detail.id.s = <<>>
               \/ event.region.t = "absent"
               \/ event.region.s = <<>>
       THEN Return([BaseResponse EXCEPT
                     !.statusCode = 400, !.keys = {"status", "message", "event"},
                     !.status = "error",
                     !.message = "Missing 'instance-id' or 'region'"])
       ELSE pc' = "client" /\ UNCHANGED response
    /\ UNCHANGED <<handler, event, ec2Calls, pcVars, dnsVars>>

\* the body the outermost except builds
UnexpectedError ==
    [BaseResponse EXCEPT
       !.statusCode = 500,
       !.keys = {"status", "message", "instance_id", "region", "event"},
       !.status = "error",
       !.message = "An unexpected error occurred during execution"]

\* boto3.client('ec2', region_name=region) inside the try block
DnsClient ==
    /\ pc = "client"
    /\ handler = "UpdateDNS"
    /\ \E ok \in BOOLEAN :
         IF ok THEN pc' = "describe" /\ UNCHANGED response
         ELSE Return(UnexpectedError)
    /\ UNCHANGED <<handler, event, ec2Calls, pcVars, dnsVars>>

\* the describe request for the notification's instance and how it ended
DescribeCall(outcome) ==
    [api |-> "describe_instances", id |-> event.detail.id.s, outcome |-> outcome]

\* ec2.describe_instances(InstanceIds=[instance_id])
DnsDescribe ==
    /\ pc = "describe"
    /\ \/ /\ \E sh \in ReservationShapes :
               \E flat \in [1..Total(sh) -> DescribedInstances] :
                 reservations' = Reservations(sh, flat)
          /\ ec2Calls' = Append(ec2Calls, DescribeCall("ok"))
          /\ pc' = "loop"
          /\ UNCHANGED response
       \/ /\ Return(DnsError(404, "Failed to describe instance"))
          /\ ec2Calls' = Append(ec2Calls, DescribeCall("ClientError"))
          /\ UNCHANGED reservations
       \/ /\ Return(DnsError(500, "Unexpected error describing instance"))
          /\ ec2Calls' = Append(ec2Calls, DescribeCall("Exception"))
          /\ UNCHANGED reservations
    /\ UNCHANGED <<handler, event, pcVars, dnsCalls, pos, found_instance_details,
                   update_results>>

\* what do_dns_update returns for its outcome
UpsertResult(dns_name, ip_address, outcome) ==
    [action |-> "UPSERT", dns_name |-> dns_name, ip_address |-> ip_address,
     status |-> IF outcome = "success" THEN "success" ELSE "error"]

\* one iteration of the loops over reservations and instances
DnsInstance ==
    /\ pc = "loop"
    /\ pos < Len(Flatten(reservations))
    /\ LET instance == Flatten(reservations)[pos + 1]
           dns_name == ResolveName(instance)
           ip_address == instance.PublicIpAddress
       IN  IF dns_name = ""
           THEN /\ Return(DnsError(400, "Cannot determine DNS name"))
                /\ UNCHANGED <<dnsCalls, update_results>>
           ELSE IF ip_address # ""
           THEN /\ \E outcome \in {"success", "ClientError", "Exception"} :
                     /\ dnsCalls' = Append(dnsCalls,
                            [dns_name |-> dns_name, ip_address |-> ip_address,
                             instance |-> pos + 1, outcome |-> outcome])
                     /\ update_results' = Append(update_results,
                            UpsertResult(dns_name, ip_address, outcome))
                /\ UNCHANGED <<pc, response>>
           ELSE /\ update_results' = Append(update_results,
                       [action |-> "skipped", dns_name |-> dns_name,
                        ip_address |-> ip_address, status |-> "skipped"])
                /\ UNCHANGED <<pc, response, dnsCalls>>
    /\ found_instance_details' = TRUE
    /\ pos' = pos + 1
    /\ UNCHANGED <<handler, event, ec2Calls, pcVars, reservations>>

AnyError(results) == \E k \in 1..Len(results) : results[k].status = "error"

\* a mutant of BodyStatus: a skipped result counts as an error
BodyStatusCountsSkipped(results) ==
    IF \E k \in 1..Len(results) : results[k].status # "success"
    THEN "partial_success_with_errors" ELSE "success"

\* response_body["status"]
BodyStatus(results) ==
    IF AnyError(results) THEN "partial_success_with_errors" ELSE "success"

\* overall_status_message
DnsMessage(results) ==
    IF results = <<>> THEN "No DNS updates were attempted"
    ELSE IF AnyError(results) THEN "Some DNS updates failed"
    ELSE "DNS update process completed successfully."

\* a mutant of DnsAggregate: the not-found check is missing
DnsAggregateWithoutNotFound ==
    /\ pc = "loop"
    /\ pos = Len(Flatten(reservations))
    /\ Return([BaseResponse EXCEPT
                !.statusCode = 200,
                !.keys = {"status", "message", "instance_id", "region", "updates"},
                !.status = BodyStatus(update_results),
                !.message = DnsMessage(update_results),
                !.updates = update_results])
    /\ UNCHANGED <<handler, event, ec2Calls, pcVars, dnsVars>>

\* the loops are over: not found, or the aggregate response
DnsAggregate ==
    /\ pc = "loop"
    /\ pos = Len(Flatten(reservations))
    /\ IF ~found_instance_details
       THEN Return([BaseResponse EXCEPT
                     !.statusCode = 404,
                     !.keys = {"status", "message", "instance_id", "region"},
                     !.status = "error",
                     !.message = "Instance not found or could not be described"])
       ELSE Return([BaseResponse EXCEPT
                     !.statusCode = 200,
                     !.keys = {"status", "message", "instance_id", "region", "updates"},
                     !.status = BodyStatus(update_results),
                     !.message = DnsMessage(update_results),
                     !.updates = update_results])
    /\ UNCHANGED <<handler, event, ec2Calls, pcVars, dnsVars>>

UpdateDNSNext ==
    \/ DnsValidate
    \/ DnsClient
    \/ DnsDescribe
    \/ DnsInstance
    \/ DnsAggregate

Next ==
    \/ Invoke
    \/ PowerCycleNext
    \/ UpdateDNSNext

Spec == Init /\ [][Next]_vars

\* ------------------------------------------------------------- properties
Done == pc = "done"

\* the start/stop requests issued so far, in order
Commands == SelectSeq(ec2Calls, LAMBDA c : c.api \in {"start_instances", "stop_instances"})

\* the instance IDs that received a request of the given API
IdsCalled(api) == {ec2Calls[k].id : k \in {j \in 1..Len(ec2Calls) : ec2Calls[j].api = api}}

\* the instances strings that say "all", as written in the sample inputs
AllSelectors == {AllTok, AllUpperPadded}

\* the listed instances in one of the given states
ListedIn(states) == {listed[k].InstanceId : k \in {j \in 1..Len(listed) : listed[j].State \in states}}

\* the handler returned after the listing completed: the empty-selection
\* body or the aggregate body
ListingAnswered ==
    /\ Done
    /\ handler = "PowerCycle"
    /\ event.instances.s \in AllSelectors
    /\ "successful_instances" \in response.keys

\* C1: with instances = "all" (any case, trimmed), the instances that receive
\* a start command are exactly the listed instances in state stopped or
\* stopping when the operation is start, those that receive a stop command are
\* exactly the listed instances in state running or pending when the
\* operation is stop, and an instance in another state receives no command
\* and is in no entry of failed_instances.
C1_AllSelectsByState ==
    LET op == event.operation.s
        wanted == IF op = "start" THEN ListedIn({"stopped", "stopping"})
                  ELSE ListedIn({"running", "pending"})
        others == {listed[k].InstanceId : k \in 1..Len(listed)} \ wanted
        failedIds == {response.failed_instances[k].instance_id :
                        k \in 1..Len(response.failed_instances)}
    IN  /\ (handler = "PowerCycle" /\ event.instances.s \in AllSelectors) =>
              /\ IdsCalled("start_instances") \subseteq (IF op = "start" THEN wanted ELSE {})
              /\ IdsCalled("stop_instances") \subseteq (IF op = "stop" THEN wanted ELSE {})
        /\ ListingAnswered =>
              /\ IdsCalled("start_instances") = (IF op = "start" THEN wanted ELSE {})
              /\ IdsCalled("stop_instances") = (IF op = "stop" THEN wanted ELSE {})
              /\ others \cap failedIds = {}
              /\ others \cap (IdsCalled("start_instances") \cup IdsCalled("stop_instances")) = {}

\* C1 witness: " ALL " with operation start, a stopped instance started, a
\* failed start, and a pending instance skipped
C1_Witness ==
    /\ ListingAnswered
    /\ event.instances.s = AllUpperPadded
    /\ event.operation.s = "start"
    /\ IdsCalled("start_instances") # {}
    /\ response.failed_instances # <<>>
    /\ ListedIn({"pending"}) # {}

\* the body of the aggregate response, built after the execution loop
ExecutionAnswered ==
    /\ Done
    /\ handler = "PowerCycle"
    /\ Commands # <<>>

NoCommandSucceeded == \A k \in 1..Len(Commands) : Commands[k].outcome # "ok"

\* the request "<IdA>,bad-id" with operation stop
OneValidOneMalformed ==
    /\ event.tokens = <<IdA, BadId>>
    /\ event.operation.s = "stop"

\* C2: once the execution phase is reached the status code is 500 exactly
\* when no start/stop call succeeded and a failure is recorded, and 200
\* otherwise; for one valid and one malformed ID exactly one command is
\* issued, failed_instances holds the malformed ID, and the status is 200 if
\* the call succeeds.
C2_StatusOfAggregate ==
    ExecutionAnswered =>
        /\ response.kind = "return"
        /\ response.statusCode \in {200, 500}
        /\ response.statusCode = 500 <=>
              (NoCommandSucceeded /\ response.failed_instances # <<>>)
        /\ OneValidOneMalformed =>
              /\ Len(Commands) = 1
              /\ Commands[1].api = "stop_instances"
              /\ Commands[1].id = IdA
              /\ Commands[1].outcome = "ok" =>
                    /\ response.statusCode = 200
                    /\ Len(response.failed_instances) = 1
                    /\ response.failed_instances[1].instance_id = BadId

\* C2 witness: the one-valid-one-malformed request answered 200 with one
\* success and one failure
C2_Witness ==
    /\ ExecutionAnswered
    /\ OneValidOneMalformed
    /\ Commands[1].outcome = "ok"
    /\ response.statusCode = 200
    /\ response.failed_instances # <<>>

\* C2 second witness state: every call failed and the answer is 500
C2_AllFailed ==
    /\ ExecutionAnswered
    /\ NoCommandSucceeded
    /\ response.statusCode = 500

\* what trimming leaves of a token of the sample inputs
TrimmedOf(t) ==
    CASE t = PaddedA -> IdA
      [] t = BlankTok -> <<>>
      [] t = AllUpperPadded -> <<"A","L","L">>
      [] OTHER -> t

\* the IDs of the pattern: i- and 17 lower-case hex characters
WellFormedIds == {Id(n) : n \in 1..16}

\* the non-empty trimmed tokens of the request that are not of the pattern
MalformedTokens ==
    {TrimmedOf(event.tokens[k]) : k \in 1..Len(event.tokens)} \ (WellFormedIds \cup {<<>>})

\* the trimmed tokens of the request that are of the pattern
WellFormedTokens ==
    {TrimmedOf(event.tokens[k]) : k \in 1..Len(event.tokens)} \cap WellFormedIds

\* region, operation and instances pass the three field validations, and
\* instances is a list, not "all"
ValidListRequest ==
    /\ handler = "PowerCycle"
    /\ event.isMapping
    /\ event.region = Str(<<" ","e","u"," ">>)
    /\ event.operation.s \in {"start", "stop"}
    /\ event.instances.t = "str"
    /\ event.instances.s \notin AllSelectors
    /\ event.instances.s \notin {<<>>, <<" ">>}

EntriesOf(entries) == {entries[k] : k \in 1..Len(entries)}

\* C3 as claimed: every malformed token of a valid list request is kept out
\* of the start/stop calls and is an invalid-format entry of failed_instances,
\* whatever the mix of tokens.
C3_Original ==
    (Done /\ ValidListRequest /\ response.message # "Failed to initialize EC2 client.") =>
        \A t \in MalformedTokens :
            /\ t \notin (IdsCalled("start_instances") \cup IdsCalled("stop_instances"))
            /\ "failed_instances" \in response.keys
            /\ InvalidFormat(t) \in EntriesOf(response.failed_instances)

\* C3 amended: every malformed token of a valid list request is kept out of
\* the start/stop calls; when a token is well-formed it is an invalid-format
\* entry of failed_instances of the final response; when no token is
\* well-formed the response is 400, has no failed_instances field and lists
\* the token under invalid_instances (nothing is listed when the client
\* cannot be constructed).
C3_MalformedExcludedAndReported ==
    ValidListRequest =>
        \A t \in MalformedTokens :
            /\ t \notin (IdsCalled("start_instances") \cup IdsCalled("stop_instances"))
            /\ (Done /\ response.message # "Failed to initialize EC2 client.") =>
                  IF WellFormedTokens # {}
                  THEN /\ "failed_instances" \in response.keys
                       /\ InvalidFormat(t) \in EntriesOf(response.failed_instances)
                  ELSE /\ response.statusCode = 400
                       /\ "failed_instances" \notin response.keys
                       /\ "invalid_instances" \in response.keys
                       /\ InvalidFormat(t) \in EntriesOf(response.invalid_instances)
                       /\ ec2Calls = <<>>

\* C3 witness: an upper-case ID beside a well-formed one, reported as an
\* invalid-format failure while the well-formed one was called
C3_Witness ==
    /\ Done
    /\ ValidListRequest
    /\ event.tokens = <<UpperId, PaddedA>>
    /\ IdsCalled("start_instances") = {IdA}
    /\ InvalidFormat(UpperId) \in EntriesOf(response.failed_instances)

\* the five fields the specification lists for every body
FiveFields ==
    {"message", "operation", "region", "successful_instances", "failed_instances"}

\* C4 as claimed: every body the PowerCycle handler returns has the five
\* fields message, operation, region, successful_instances, failed_instances.
C4_Original ==
    (Done /\ handler = "PowerCycle" /\ response.kind = "return") =>
        FiveFields \subseteq response.keys

\* C4 amended: every body the PowerCycle handler returns has a message; the
\* final aggregate body (returned after the execution loop) has all five
\* fields; the body of the empty "all" selection has message, operation,
\* successful_instances and failed_instances but no region; every other body
\* (validation rejection, client or listing failure) has none of operation,
\* region, successful_instances and failed_instances.
C4_BodyFieldsByPath ==
    (Done /\ handler = "PowerCycle" /\ response.kind = "return") =>
        /\ "message" \in response.keys
        /\ Commands # <<>> => FiveFields \subseteq response.keys
        /\ (Commands = <<>> /\ response.statusCode = 200) =>
              /\ event.instances.s \in AllSelectors
              /\ response.keys = FiveFields \ {"region"}
        /\ (Commands = <<>> /\ response.statusCode # 200) =>
              response.keys \cap (FiveFields \ {"message"}) = {}

\* C4 witness: an aggregate body with the five fields
C4_Witness ==
    /\ Done
    /\ handler = "PowerCycle"
    /\ Commands # <<>>
    /\ response.keys = FiveFields
    /\ response.successful_instances # <<>>

\* the notification is a mapping whose detail is absent, null or a mapping,
\* and it carries no instance-id or no region
NotificationLacksField ==
    /\ handler = "UpdateDNS"
    /\ event.isMapping
    /\ event.detail.t \in {"absent", "null", "map"}
    /\ \/ event.detail.t # "map"
       \/ event.detail.id.t # "str"
       \/ event.detail.id.s = <<>>
       \/ event.region.t # "str"
       \/ event.region.s = <<>>

\* C5: a 400 answer of the PowerCycle handler is returned with no compute API
\* call issued, and a notification without instance-id or region is answered
\* 400 by the DNS-Sync handler with no compute and no DNS API call issued.
C5_ValidationErrorsReachNoApi ==
    /\ (Done /\ handler = "PowerCycle" /\ response.statusCode = 400) => ec2Calls = <<>>
    /\ (Done /\ NotificationLacksField) =>
          /\ response.kind = "return"
          /\ response.statusCode = 400
          /\ ec2Calls = <<>>
          /\ dnsCalls = <<>>

\* C6: no exception leaves either handler: every invocation ends with a
\* returned response that carries a status code.
C6_NoExceptionEscapes ==
    Done => (response.kind = "return" /\ response.statusCode \in {200, 400, 404, 500})

\* C7: when the DNS-Sync handler answers 400 because an instance has neither
\* a non-empty PublicDNS tag nor a non-empty Name tag, it has issued no DNS
\* upsert in that invocation.
C7_NoUpsertBeforeTagRejection ==
    (Done /\ handler = "UpdateDNS" /\ response.statusCode = 400
          /\ response.message = "Cannot determine DNS name") => dnsCalls = <<>>

\* the describe call of the DNS-Sync handler succeeded
LookupSucceeded ==
    /\ handler = "UpdateDNS"
    /\ ec2Calls # <<>>
    /\ ec2Calls[1].outcome = "ok"

\* the instances of the describe response
Described == Flatten(reservations)

\* the value of the instance's tag with the given key, "" when it has none
\* (a key occurs once, so the order of the tags plays no part)
TagOf(instance, key) ==
    LET values == {instance.Tags[k].Value :
                     k \in {j \in 1..Len(instance.Tags) : instance.Tags[j].Key = key}}
    IN  IF instance.hasTags /\ values # {} THEN CHOOSE v \in values : TRUE ELSE ""

\* the name the specification resolves: PublicDNS when non-empty, else Name
ExpectedName(instance) ==
    IF TagOf(instance, "PublicDNS") # "" THEN TagOf(instance, "PublicDNS")
    ELSE TagOf(instance, "Name")

\* the upsert invocations made for the k-th instance of the response
UpsertsFor(k) == {j \in 1..Len(dnsCalls) : dnsCalls[j].instance = k}

\* the k-th instance has a public IP and a non-empty PublicDNS or Name tag
Resolvable(k) ==
    /\ Described[k].PublicIpAddress # ""
    /\ ExpectedName(Described[k]) # ""

\* C8 as claimed: once the handler has answered, every instance of the
\* response with a public IP and a usable tag has had exactly one upsert,
\* with the PublicDNS value when non-empty and else the Name value.
C8_Original ==
    (Done /\ LookupSucceeded) =>
        \A k \in 1..Len(Described) :
            Resolvable(k) =>
                /\ Cardinality(UpsertsFor(k)) = 1
                /\ \A j \in UpsertsFor(k) :
                      dnsCalls[j].dns_name = ExpectedName(Described[k])

\* C8 amended: the same for every instance the handler reaches, that is,
\* every instance that no instance without a usable PublicDNS or Name tag
\* precedes in the response; no other instance has an upsert, and Name is
\* never the upserted name of an instance with a non-empty PublicDNS tag.
C8_UpsertOncePerReachedInstance ==
    LookupSucceeded =>
        /\ \A j \in 1..Len(dnsCalls) :
              LET i == Described[dnsCalls[j].instance]
              IN  /\ Resolvable(dnsCalls[j].instance)
                  /\ Cardinality(UpsertsFor(dnsCalls[j].instance)) = 1
                  /\ dnsCalls[j].ip_address = i.PublicIpAddress
                  /\ dnsCalls[j].dns_name = ExpectedName(i)
                  /\ TagOf(i, "PublicDNS") # "" => dnsCalls[j].dns_name = TagOf(i, "PublicDNS")
        /\ Done =>
              \A k \in 1..Len(Described) :
                  (Resolvable(k) /\ \A m \in 1..(k - 1) : ExpectedName(Described[m]) # "")
                      => Cardinality(UpsertsFor(k)) = 1

\* C8 witness: tags Name then PublicDNS, both non-empty, and the upsert made
\* with the PublicDNS value; a second instance upserted under its Name tag
C8_Witness ==
    /\ Done
    /\ LookupSucceeded
    /\ Len(Described) = 2
    /\ Described[1].Tags = <<[Key |-> "Name", Value |-> "host1"],
                             [Key |-> "PublicDNS", Value |-> "pub"]>>
    /\ Described[2].Tags = <<[Key |-> "PublicDNS", Value |-> ""],
                             [Key |-> "Name", Value |-> "host1"]>>
    /\ Len(dnsCalls) = 2
    /\ dnsCalls[1].dns_name = "pub"
    /\ dnsCalls[2].dns_name = "host1"

\* C9 as claimed: when the describe call succeeds and the response holds no
\* instance, the answer is 200 "no updates attempted".
C9_Original ==
    (Done /\ LookupSucceeded /\ Described = <<>>) =>
        /\ response.statusCode = 200
        /\ response.message = "No DNS updates were attempted"

\* C9 amended: when the describe call succeeds and the response holds no
\* instance (no reservation, or reservations without instances) the answer is
\* 404 "instance not found"; "no updates attempted" is never reported.
C9_NoInstancesIsNotFound ==
    /\ (Done /\ LookupSucceeded /\ Described = <<>>) =>
          /\ response.statusCode = 404
          /\ response.message = "Instance not found or could not be described"
          /\ ec2Calls = <<DescribeCall("ok")>>
          /\ dnsCalls = <<>>
    /\ response.message # "No DNS updates were attempted"

\* C9 witness: a reservation that holds no instances, answered 404
C9_Witness ==
    /\ Done
    /\ LookupSucceeded
    /\ Len(reservations) = 1
    /\ Described = <<>>
    /\ response.statusCode = 404

\* the results the handler recorded hold an error
RecordedError == \E k \in 1..Len(update_results) : update_results[k].status = "error"

\* C10 as claimed: once the describe call returned an instance, the status
\* code is 200 and the body status is "partial_success_with_errors" exactly
\* when a recorded result has status "error", else "success".
C10_Original ==
    (Done /\ LookupSucceeded /\ Described # <<>>) =>
        /\ response.statusCode = 200
        /\ response.status = (IF RecordedError THEN "partial_success_with_errors"
                               ELSE "success")

\* C10 amended: once the describe call returned an instance, the status code
\* is 200 with that body status when every instance of the response has a
\* non-empty PublicDNS or Name tag, and 400 with body status "error" when one
\* has neither.
C10_StatusAfterLookup ==
    (Done /\ LookupSucceeded /\ Described # <<>>) =>
        IF \A k \in 1..Len(Described) : ExpectedName(Described[k]) # ""
        THEN /\ response.statusCode = 200
             /\ response.updates = update_results
             /\ Len(update_results) = Len(Described)
             /\ response.status = (IF RecordedError THEN "partial_success_with_errors"
                                    ELSE "success")
        ELSE /\ response.statusCode = 400
             /\ response.status = "error"

\* C10 witness: one upsert failed, one instance skipped, answered 200 with
\* "partial_success_with_errors"
C10_Witness ==
    /\ Done
    /\ LookupSucceeded
    /\ response.statusCode = 200
    /\ response.status = "partial_success_with_errors"
    /\ \E k \in 1..Len(update_results) : update_results[k].status = "skipped"

\* C10 second witness state: a skipped result alone leaves "success"
C10_SkippedIsSuccess ==
    /\ Done
    /\ LookupSucceeded
    /\ response.status = "success"
    /\ \E k \in 1..Len(update_results) : update_results[k].status = "skipped"

\* the trimmed tokens of the request, in order
TrimmedTokens == [k \in 1..Len(event.tokens) |-> TrimmedOf(event.tokens[k])]

\* the list of validated IDs of an explicit list request: its well-formed
\* trimmed tokens, in order, duplicates kept
ValidatedIds == SelectSeq(TrimmedTokens, LAMBDA t : t \in WellFormedIds)

\* the invalid-format entries of an explicit list request, in order
FormatFailures ==
    LET bad == SelectSeq(TrimmedTokens, LAMBDA t : t # <<>> /\ t \notin WellFormedIds)
    IN  [k \in 1..Len(bad) |-> [instance_id |-> bad[k], reason |-> "invalid_format"]]

NonEmptyTokens == SelectSeq(TrimmedTokens, LAMBDA t : t # <<>>)

\* the IDs the listing selected for the operation, in listing order
SelectedListed ==
    LET wanted == IF event.operation.s = "start" THEN {"stopped", "stopping"}
                  ELSE {"running", "pending"}
        hit == SelectSeq(listed, LAMBDA i : i.State \in wanted)
    IN  [k \in 1..Len(hit) |-> hit[k].InstanceId]

\* the list the execution loop fans out over, as the request determines it
FanOutList ==
    IF event.instances.s \in AllSelectors THEN SelectedListed ELSE ValidatedIds

CommandIds == [k \in 1..Len(Commands) |-> Commands[k].id]

\* the IDs of the commands that succeeded, in call order
SucceededIds ==
    LET ok == SelectSeq(Commands, LAMBDA c : c.outcome = "ok")
    IN  [k \in 1..Len(ok) |-> ok[k].id]

\* the failure entries of the commands that failed, in call order
CallFailures ==
    LET bad == SelectSeq(Commands, LAMBDA c : c.outcome # "ok")
    IN  [k \in 1..Len(bad) |->
            [instance_id |-> bad[k].id,
             reason |-> IF bad[k].outcome = "ClientError" THEN "aws_api_error"
                        ELSE "unexpected_error"]]

\* C11: the execution loop issues exactly one start/stop command per entry of
\* the list of validated IDs, in list order, whatever calls fail (no retry,
\* no abort after a failure); on return each entry, a duplicated ID once per
\* occurrence, is in exactly one of successful_instances (its call succeeded)
\* and failed_instances (its call failed), and for an explicit list the two
\* lists together have as many entries as the request has non-empty tokens.
C11_OneCommandPerEntryInOrder ==
    (handler = "PowerCycle" /\ Commands # <<>>) =>
        /\ Len(CommandIds) <= Len(FanOutList)
        /\ CommandIds = SubSeq(FanOutList, 1, Len(CommandIds))
        /\ \A k \in 1..Len(Commands) :
              Commands[k].api = (IF event.operation.s = "start" THEN "start_instances"
                                 ELSE "stop_instances")
        /\ Done =>
              /\ CommandIds = FanOutList
              /\ response.successful_instances = SucceededIds
              /\ event.instances.s \in AllSelectors =>
                    response.failed_instances = CallFailures
              /\ event.instances.s \notin AllSelectors =>
                    /\ response.failed_instances = FormatFailures \o CallFailures
                    /\ Len(response.successful_instances) + Len(response.failed_instances)
                          = Len(NonEmptyTokens)

\* C11 witness: the same ID twice, the first call fails and the second is
\* still made and succeeds, so the ID is once in each list
C11_Witness ==
    /\ Done
    /\ handler = "PowerCycle"
    /\ event.tokens = <<IdA, PaddedA>>
    /\ Len(Commands) = 2
    /\ Commands[1].outcome = "ClientError"
    /\ Commands[2].outcome = "ok"
    /\ response.successful_instances = <<IdA>>
    /\ Len(response.failed_instances) = 1

\* the requests of the listing issued so far, in order
ListRequests == SelectSeq(ec2Calls, LAMBDA c : c.api = "describe_instances")

\* a request of the listing failed
ListingFailed == \E k \in 1..Len(ListRequests) : ListRequests[k].outcome # "ok"

\* the handler runs on an "all" request
AllRequest ==
    /\ handler = "PowerCycle"
    /\ event.instances.s \in AllSelectors

\* C12: with instances = "all" no start/stop command is issued while the
\* paginated listing is under way: every listing request precedes every
\* command and every page has been read by then; if a listing request fails
\* on any page, also after earlier pages yielded instances in a matching
\* state, the handler returns 500 and has issued no start/stop command.
C12_NoCommandBeforeListingEnds ==
    AllRequest =>
        /\ pc = "list" => Commands = <<>>
        /\ Commands # <<>> =>
              /\ pc \in {"exec", "done"}
              /\ ~ListingFailed
              /\ ec2Calls = ListRequests \o Commands
              /\ Len(ListRequests) = pagesFetched
              /\ CommandIds = SubSeq(SelectedListed, 1, Len(CommandIds))
        /\ ListingFailed =>
              /\ Done
              /\ response.kind = "return"
              /\ response.statusCode = 500
              /\ Commands = <<>>

\* C12 witness: the first page yields a stopped instance for a start request,
\* the second page request fails, and the answer is 500 with no command
C12_Witness ==
    /\ Done
    /\ AllRequest
    /\ event.operation.s = "start"
    /\ Len(ListRequests) = 2
    /\ ListRequests[1].outcome = "ok"
    /\ ListRequests[2].outcome = "ClientError"
    /\ SelectedListed # <<>>
    /\ response.statusCode = 500
    /\ Commands = <<>>

\* C12 second witness state: commands issued after a listing of two pages
C12_CommandsAfterTwoPages ==
    /\ AllRequest
    /\ Len(ListRequests) = 2
    /\ Commands # <<>>

====
